---- MODULE Spec2Model ----
(***************************************************************************)
(* State-machine model of the e-commerce services of this repository:      *)
(*   - fulfillment shipment status updates (fulfillment_service)           *)
(*   - the Redis fixed-window RateLimiter (notification_service)           *)
(*   - the TimelineAggregator cache-aside (support_service)                *)
(*   - support ticket mutations and their cache invalidation               *)
(*   - notification send / fail / batch and event handling                 *)
(*   - inventory items and their reservations (inventory_service)          *)
(*   - shopping carts and their merge (cart_service)                       *)
(* Each subsystem has its own variables, actions and specification.        *)
(***************************************************************************)
EXTENDS Integers, Sequences, FiniteSets, TLC

VARIABLES
    shipments,      \* fulfillment: shipment id -> row of the shipments table
    shipResp,       \* fulfillment: the last HTTP response of the service
    rlRedis,        \* rate limiter: whether a Redis client is configured
    rlKey,          \* rate limiter: the Redis key notification_rate:{channel}
    rlCall,         \* rate limiter: caller -> its allow() call in progress
    rlLast,         \* rate limiter: the allow() call that returned last
    rlErrors,       \* rate limiter: NOTIFICATION_RATE_LIMIT_ERRORS_TOTAL by operation
    rlRaised,       \* rate limiter: Redis operations that raised, by operation
    rlAge,          \* rate limiter: seconds since the key was created
    rlAllowed,      \* rate limiter: amounts allowed since the key was created
    tlCfg,          \* timeline: the aggregator's redis / cache_ttl / base urls
    tlRefs,         \* timeline: the references found in the ticket's context
    tlCache,        \* timeline: the Redis key support:timeline:{ticket_id}
    tlRemote,       \* timeline: version of the data the downstream services hold
    tlCol,          \* timeline: the collect() call in progress or just returned
    supCfg,         \* support: what the app wires in (cache, storage, publisher)
    supTickets,     \* support: ticket id -> row of support_tickets with its counts
    supKeys,        \* support: ticket id -> whether support:timeline:{id} is set
    supLast,        \* support: the last request the service handled
    ntfCfg,         \* notification: whether a provider / a rate limiter is wired in
    ntfRows,        \* notification: id -> row of notifications with its events
    ntfCounters,    \* notification: sent / failure counters by channel
    ntfLast,        \* notification: the last request the service handled
    ntfPrefs,       \* notification: customer -> channel -> stored preference
    ntfJobs,        \* notification: the rows of notification_jobs
    invItems,       \* inventory: id -> row of inventory_items with its events
    invReq,         \* inventory: request -> what it has read, while in progress
    invLast,        \* inventory: the last response the service gave
    carts,          \* cart: customer id -> the customer's cart and its items
    cartLast        \* cart: the last request the service handled

fulVars == <<shipments, shipResp>>
rlVars == <<rlRedis, rlKey, rlCall, rlLast, rlErrors, rlRaised, rlAge, rlAllowed>>

tlVars == <<tlCfg, tlRefs, tlCache, tlRemote, tlCol>>

supVars == <<supCfg, supTickets, supKeys, supLast>>
ntfVars == <<ntfCfg, ntfRows, ntfCounters, ntfLast, ntfPrefs, ntfJobs>>
invVars == <<invItems, invReq, invLast>>

vars == <<shipments, shipResp, rlRedis, rlKey, rlCall, rlLast, rlErrors, rlRaised,
          rlAge, rlAllowed, tlCfg, tlRefs, tlCache, tlRemote, tlCol,
          supCfg, supTickets, supKeys, supLast,
          ntfCfg, ntfRows, ntfCounters, ntfLast, ntfPrefs, ntfJobs,
          invItems, invReq, invLast, carts, cartLast>>

None == "None"

KeepNonFulfillment == UNCHANGED <<rlVars, tlVars, supVars, ntfVars, invVars, carts, cartLast>>
KeepNonRateLimiter == UNCHANGED <<fulVars, tlVars, supVars, ntfVars, invVars, carts, cartLast>>
KeepNonTimeline == UNCHANGED <<fulVars, rlVars, supVars, ntfVars, invVars, carts, cartLast>>
KeepNonSupport == UNCHANGED <<fulVars, rlVars, tlVars, ntfVars, invVars, carts, cartLast>>
KeepNonNotification == UNCHANGED <<fulVars, rlVars, tlVars, supVars, invVars, carts, cartLast>>
KeepNonInventory ==
    UNCHANGED <<fulVars, rlVars, tlVars, supVars, ntfVars, carts, cartLast>>
KeepNonCart == UNCHANGED <<fulVars, rlVars, tlVars, supVars, ntfVars, invVars>>

(***************************************************************************)
(* Fulfillment service                                                     *)
(***************************************************************************)

\* Bound: length of a shipment's event log.
MaxShipmentEvents == 3

ShipmentIds == {1, 2}

ALLOWED_STATUSES ==
    {"pending", "ready", "processing", "packed", "shipped", "delivered",
     "cancelled", "delayed", "return_initiated"}

STATUS_TRANSITIONS ==
    [s \in ALLOWED_STATUSES |->
        CASE s = "pending"    -> {"ready", "processing", "packed", "cancelled"}
          [] s = "ready"      -> {"processing", "packed", "shipped", "cancelled"}
          [] s = "processing" -> {"packed", "shipped", "cancelled"}
          [] s = "packed"     -> {"shipped", "cancelled", "delayed"}
          [] s = "shipped"    -> {"delivered", "delayed", "return_initiated"}
          [] s = "delivered"  -> {"return_initiated"}
          [] s = "delayed"    -> {"shipped", "delivered", "cancelled"}
          [] s = "return_initiated" -> {}
          [] s = "cancelled"  -> {}]

\* Request bodies the status endpoint receives: the "status" field as sent.
RawShipmentStatuses ==
    ALLOWED_STATUSES \cup {"SHIPPED", " Cancelled ", "Delivered", "refunded", "LOST"}

\* ShipmentStatusUpdate._normalize_status: value.strip().lower()
StripLower(raw) ==
    CASE raw = "SHIPPED"     -> "shipped"
      [] raw = " Cancelled " -> "cancelled"
      [] raw = "Delivered"   -> "delivered"
      [] raw = "LOST"        -> "lost"
      [] OTHER               -> raw

NoShipment == [exists |-> FALSE, status |-> None, shipped_at |-> FALSE,
               delivered_at |-> FALSE, events |-> <<>>]

\* FulfillmentService.create_shipment: status "pending", one "created" event.
CreateShipment(id) ==
    /\ ~shipments[id].exists
    /\ shipments' = [shipments EXCEPT ![id] =
            [exists |-> TRUE, status |-> "pending", shipped_at |-> FALSE,
             delivered_at |-> FALSE, events |-> <<"created">>]]
    /\ shipResp' = [op |-> "create", id |-> id, from |-> None,
                    target |-> "pending", code |-> 201]
    /\ KeepNonFulfillment

\* The guard of FulfillmentService.update_status: the reason of the ValueError
\* it raises, or "ok" when the update goes through.
TransitionCheck(current, target) ==
    IF target \notin ALLOWED_STATUSES THEN "Unsupported status transition"
    ELSE IF current = target THEN "Shipment already in target status"
    ELSE IF STATUS_TRANSITIONS[current] # {} /\ target \notin STATUS_TRANSITIONS[current]
         THEN "Invalid status transition"
    ELSE "ok"

\* POST /shipments/{id}/status on a missing shipment: 404.
UpdateStatusMissing(id, raw) ==
    /\ ~shipments[id].exists
    /\ shipResp' = [op |-> "update_status", id |-> id, from |-> None,
                    target |-> StripLower(raw), code |-> 404]
    /\ UNCHANGED shipments
    /\ KeepNonFulfillment

\* POST /shipments/{id}/status: FulfillmentService.update_status, with the
\* route's mapping of ValueError to 409.
UpdateStatus(id, raw) ==
    LET s       == shipments[id]
        target  == StripLower(raw)
        verdict == TransitionCheck(s.status, target)
        shipped == IF target \in {"shipped", "delivered"} THEN TRUE ELSE s.shipped_at
        deliv   == IF target = "delivered" THEN TRUE ELSE s.delivered_at
    IN  /\ s.exists
        /\ Len(s.events) <= MaxShipmentEvents
        /\ KeepNonFulfillment
        /\ IF verdict = "ok"
           THEN /\ shipments' = [shipments EXCEPT ![id] =
                        [exists |-> TRUE, status |-> target, shipped_at |-> shipped,
                         delivered_at |-> deliv,
                         events |-> Append(s.events, "status." \o target)]]
                /\ shipResp' = [op |-> "update_status", id |-> id, from |-> s.status,
                                target |-> target, code |-> 200]
           ELSE /\ UNCHANGED shipments
                /\ shipResp' = [op |-> "update_status", id |-> id, from |-> s.status,
                                target |-> target, code |-> 409]

InitFulfillment ==
    /\ shipments = [id \in ShipmentIds |-> NoShipment]
    /\ shipResp = [op |-> None, id |-> 0, from |-> None, target |-> None, code |-> 0]

NextFulfillment ==
    \/ \E id \in ShipmentIds : CreateShipment(id)
    \/ \E id \in ShipmentIds, raw \in RawShipmentStatuses : UpdateStatusMissing(id, raw)
    \/ \E id \in ShipmentIds, raw \in RawShipmentStatuses : UpdateStatus(id, raw)


(***************************************************************************)
(* Notification service: RateLimiter                                       *)
(***************************************************************************)

\* Bounds: the configured limit and window, the largest amount of one call
\* (a batch larger than the limit), and the Redis failures injected in a run.
Limit == 2
WindowSeconds == 2
MaxAmount == 3
MaxRedisFailures == 1

Callers == {"r1", "r2"}
Amounts == {0, 1, MaxAmount}
RedisOps == {"incrby", "expire", "decrby"}
NoTtl == 0

NoKey == [exists |-> FALSE, value |-> 0, ttl |-> NoTtl]
IdleCall == [pc |-> "idle", amount |-> 0, count |-> 0, delta |-> 0,
             failed |-> {}, stale |-> FALSE]
NoCall == [caller |-> None, amount |-> 0, count |-> 0, delta |-> 0,
           failed |-> {}, result |-> TRUE]

RaisedTotal == rlRaised["incrby"] + rlRaised["expire"] + rlRaised["decrby"]
CanRaise == RaisedTotal < MaxRedisFailures

\* Redis INCRBY: a missing key counts as 0 and is created without a TTL.
RedisIncrBy(key, n) == [exists |-> TRUE, value |-> key.value + n, ttl |-> key.ttl]

\* Redis DECRBY: a missing key counts as 0 and is created without a TTL.
RedisDecrBy(key, n) == [exists |-> TRUE, value |-> key.value - n, ttl |-> key.ttl]

\* Redis EXPIRE: sets the TTL of an existing key; no effect on a missing one.
RedisExpire(key, seconds) ==
    IF key.exists THEN [key EXCEPT !.ttl = seconds] ELSE key

\* rate_limit.py:39: the expire is issued when the count equals the amount.
IsFirstIncrement(count, amount) == count = amount

\* rate_limit.py:44: the call is over the limit.
OverLimit(count) == count > Limit

\* A rollback that takes back one unit whatever the amount was.
RollbackOne(amount) == 1

\* rate_limit.py:46: the amount the rollback takes back.
RollbackAmount(amount) == amount

\* A decrby failure that denies the call.
DecrByErrorDenies == FALSE

\* rate_limit.py:49: what allow() returns when the rollback decrby raises.
DecrByErrorResult == TRUE

\* The call returns `res`: the amounts allowed in the key's current window
\* are summed (a call whose increment went to a key that has expired since
\* belongs to the window before).
Finish(c, call, res) ==
    /\ rlCall' = [rlCall EXCEPT ![c] = IdleCall]
    /\ rlLast' = [caller |-> c, amount |-> call.amount, count |-> call.count,
                  delta |-> call.delta, failed |-> call.failed, result |-> res]
    /\ rlAllowed' = IF res /\ ~call.stale THEN rlAllowed + call.amount ELSE rlAllowed

\* After the increment (and the expire, if any): lines 44-51 up to the decrby.
Decide(c, call) ==
    IF OverLimit(call.count)
    THEN /\ rlCall' = [rlCall EXCEPT ![c] = [call EXCEPT !.pc = "decrby"]]
         /\ UNCHANGED <<rlAllowed, rlLast>>
    ELSE Finish(c, call, TRUE)

\* allow() with amount <= 0 or without a Redis client: True, nothing touched.
AllowTrivial(c, amount) ==
    /\ rlCall[c].pc = "idle"
    /\ amount <= 0 \/ ~rlRedis
    /\ rlLast' = [NoCall EXCEPT !.caller = c, !.amount = amount, !.result = TRUE]
    /\ UNCHANGED <<rlRedis, rlKey, rlCall, rlErrors, rlRaised, rlAge, rlAllowed>>
    /\ KeepNonRateLimiter

\* allow(): the incrby succeeds (lines 33-35, then the tests of 39 and 44).
AllowIncrBy(c, amount) ==
    LET key  == RedisIncrBy(rlKey, amount)
        call == [IdleCall EXCEPT !.amount = amount, !.count = key.value,
                                 !.delta = key.value - rlKey.value]
    IN  /\ rlCall[c].pc = "idle"
        /\ amount > 0 /\ rlRedis
        /\ rlKey' = key
        /\ rlAge' = IF rlKey.exists THEN rlAge ELSE 0
        /\ IF IsFirstIncrement(call.count, amount)
           THEN /\ rlCall' = [rlCall EXCEPT ![c] = [call EXCEPT !.pc = "expire"]]
                /\ UNCHANGED <<rlAllowed, rlLast>>
           ELSE Decide(c, call)
        /\ UNCHANGED <<rlRedis, rlErrors, rlRaised>>
        /\ KeepNonRateLimiter

\* allow(): the incrby raises (lines 36-38): counted, and the call allows.
AllowIncrByRaises(c, amount) ==
    /\ rlCall[c].pc = "idle"
    /\ amount > 0 /\ rlRedis
    /\ CanRaise
    /\ rlRaised' = [rlRaised EXCEPT !["incrby"] = @ + 1]
    /\ rlErrors' = [rlErrors EXCEPT !["incrby"] = @ + 1]
    /\ Finish(c, [IdleCall EXCEPT !.amount = amount, !.failed = {"incrby"}], TRUE)
    /\ UNCHANGED <<rlRedis, rlKey, rlAge>>
    /\ KeepNonRateLimiter

\* allow(): the expire succeeds (line 41).
AllowExpire(c) ==
    /\ rlCall[c].pc = "expire"
    /\ rlKey' = RedisExpire(rlKey, WindowSeconds)
    /\ Decide(c, rlCall[c])
    /\ UNCHANGED <<rlRedis, rlErrors, rlRaised, rlAge>>
    /\ KeepNonRateLimiter

\* allow(): the expire raises (lines 42-43): counted, and the call goes on.
AllowExpireRaises(c) ==
    /\ rlCall[c].pc = "expire"
    /\ CanRaise
    /\ rlRaised' = [rlRaised EXCEPT !["expire"] = @ + 1]
    /\ rlErrors' = [rlErrors EXCEPT !["expire"] = @ + 1]
    /\ Decide(c, [rlCall[c] EXCEPT !.failed = @ \cup {"expire"}])
    /\ UNCHANGED <<rlRedis, rlKey, rlAge>>
    /\ KeepNonRateLimiter

\* allow(): the rollback decrby succeeds (lines 46, 50): the call denies.
AllowDecrBy(c) ==
    LET key == RedisDecrBy(rlKey, RollbackAmount(rlCall[c].amount))
    IN  /\ rlCall[c].pc = "decrby"
        /\ rlKey' = key
        /\ rlAge' = IF rlKey.exists THEN rlAge ELSE 0
        /\ Finish(c, [rlCall[c] EXCEPT !.delta = @ + (key.value - rlKey.value)], FALSE)
        /\ UNCHANGED <<rlRedis, rlErrors, rlRaised>>
        /\ KeepNonRateLimiter

\* allow(): the rollback decrby raises (lines 47-49): counted, the call allows.
AllowDecrByRaises(c) ==
    /\ rlCall[c].pc = "decrby"
    /\ CanRaise
    /\ rlRaised' = [rlRaised EXCEPT !["decrby"] = @ + 1]
    /\ rlErrors' = [rlErrors EXCEPT !["decrby"] = @ + 1]
    /\ Finish(c, [rlCall[c] EXCEPT !.failed = @ \cup {"decrby"}], DecrByErrorResult)
    /\ UNCHANGED <<rlRedis, rlKey, rlAge>>
    /\ KeepNonRateLimiter

\* One second passes and the key is still there.
Tick ==
    /\ rlKey.exists
    /\ rlKey.ttl # 1
    /\ rlKey.ttl # NoTtl \/ rlAge <= WindowSeconds
    /\ rlKey' = IF rlKey.ttl = NoTtl THEN rlKey ELSE [rlKey EXCEPT !.ttl = @ - 1]
    /\ rlAge' = IF rlAge <= WindowSeconds THEN rlAge + 1 ELSE rlAge
    /\ UNCHANGED <<rlRedis, rlCall, rlLast, rlErrors, rlRaised, rlAllowed>>
    /\ KeepNonRateLimiter

\* One second passes and the key's TTL runs out: Redis deletes the key.
KeyExpires ==
    /\ rlKey.exists
    /\ rlKey.ttl = 1
    /\ rlKey' = NoKey
    /\ rlAge' = 0
    /\ rlAllowed' = 0
    /\ rlCall' = [c \in Callers |->
            IF rlCall[c].pc \in {"expire", "decrby"}
            THEN [rlCall[c] EXCEPT !.stale = TRUE] ELSE rlCall[c]]
    /\ UNCHANGED <<rlRedis, rlLast, rlErrors, rlRaised>>
    /\ KeepNonRateLimiter

InitRateLimiter ==
    /\ rlRedis \in BOOLEAN
    /\ rlKey = NoKey
    /\ rlCall = [c \in Callers |-> IdleCall]
    /\ rlLast = NoCall
    /\ rlErrors = [op \in RedisOps |-> 0]
    /\ rlRaised = [op \in RedisOps |-> 0]
    /\ rlAge = 0
    /\ rlAllowed = 0

\* Concurrent allow() calls and the passing of time, every Redis operation
\* answering.
NextRateLimiter ==
    \/ \E c \in Callers, amount \in Amounts : AllowTrivial(c, amount)
    \/ \E c \in Callers, amount \in Amounts : AllowIncrBy(c, amount)
    \/ \E c \in Callers : AllowExpire(c)
    \/ \E c \in Callers : AllowDecrBy(c)
    \/ Tick
    \/ KeyExpires

\* Concurrent allow() calls whose Redis operations may raise.
NextRateLimiterFaults ==
    \/ \E c \in Callers, amount \in Amounts : AllowTrivial(c, amount)
    \/ \E c \in Callers, amount \in Amounts : AllowIncrBy(c, amount)
    \/ \E c \in Callers : AllowExpire(c)
    \/ \E c \in Callers : AllowDecrBy(c)
    \/ \E c \in Callers, amount \in Amounts : AllowIncrByRaises(c, amount)
    \/ \E c \in Callers : AllowExpireRaises(c)
    \/ \E c \in Callers : AllowDecrByRaises(c)


(***************************************************************************)
(* Support service: TimelineAggregator                                     *)
(***************************************************************************)

\* Bounds: the cache TTL in seconds and the number of times the downstream
\* data changes in a run.
CacheTtl == 2
MaxRemoteVersion == 1

\* What one GET of _get_json meets: a JSON answer, an exception it catches
\* (httpx.HTTPError, also from raise_for_status on a 4xx/5xx, or
\* json.JSONDecodeError), or an exception of another type.
GetOutcomes == {"ok", "caught_error", "other_error"}

\* The configurations of the aggregator: Redis client or None, cache_ttl,
\* and which base urls are set.
TimelineConfigs ==
    {[redis |-> r, cache_ttl |-> t, order_url |-> u[1], payment_url |-> u[2],
      fulfillment_url |-> u[3]] :
        r \in BOOLEAN, t \in {0, CacheTtl},
        u \in {<<TRUE, TRUE, TRUE>>, <<TRUE, FALSE, FALSE>>, <<FALSE, FALSE, FALSE>>}}

\* _extract_references: whether the context names an order id, payment ids,
\* shipment ids.
TimelineReferences ==
    [order_id : BOOLEAN, payment_ids : BOOLEAN, shipment_ids : BOOLEAN]

\* The cached value: `body` is what the key holds, `src` the entries the
\* collect() that wrote it returned.
\* `invalidated`: an invalidate() has deleted the key and no collect() has
\* started since.
NoCache == [present |-> FALSE, valid |-> FALSE, body |-> <<>>, src |-> <<>>, ttl |-> 0,
            age |-> 0, invalidated |-> FALSE]
CorruptCache == [present |-> TRUE, valid |-> FALSE, body |-> <<>>, src |-> <<>>,
                 ttl |-> CacheTtl, age |-> 0, invalidated |-> FALSE]

\* The key is gone (deleted or expired).
Dropped(cache) == [NoCache EXCEPT !.invalidated = cache.invalidated]

\* The four GETs of a fan-out, none of them issued.
NoGets == [order |-> None, events |-> None, payment |-> None, shipment |-> None]

\* `invalidatedSinceFetch`: an invalidate() has deleted the key since this
\* collect() fetched its entries, which it has not written yet.
IdleCollect == [pc |-> "idle", seen |-> None, cached |-> <<>>, entries |-> <<>>,
                http |-> 0, ok |-> 0, gets |-> NoGets, result |-> <<>>,
                raised |-> FALSE, fetched |-> FALSE, stored |-> None, failures |-> 0,
                age |-> 0, afterInvalidate |-> FALSE, invalidatedSinceFetch |-> FALSE]

\* timeline.py:135 and 166: the cache is used.
CacheEnabled == tlCfg.redis /\ tlCfg.cache_ttl > 0

\* An encoder that writes the first entry only.
JsonDumpsFirstOnly(entries) ==
    [valid |-> TRUE, body |-> IF entries = <<>> THEN <<>> ELSE <<Head(entries)>>]

\* json.dumps(entries, default=str): the entries are dicts of JSON values and
\* strings, which the encoder writes as they are.
JsonDumps(entries) == [valid |-> TRUE, body |-> entries]

\* json.loads(cached) of a value that json.dumps wrote.
JsonLoads(value) == value.body

\* A _get_json without its except clause.
GetJsonUncaught(outcome) == IF outcome = "ok" THEN "payload" ELSE "raise"

\* _get_json: the payload, None for the two exceptions it catches; an
\* exception of another type leaves the function.
GetJson(outcome) ==
    CASE outcome = "ok" -> "payload"
      [] outcome = "caught_error" -> None
      [] OTHER -> "raise"

Entry(type) == [type |-> type, ver |-> tlRemote]

TaskRaised == [raised |-> TRUE, entries |-> <<>>]
TaskDone(entries) == [raised |-> FALSE, entries |-> entries]

\* _fetch_order_data: GET orders/{id}, then GET orders/{id}/events.
FetchOrderData(o1, o2) ==
    IF GetJson(o1) = "raise" \/ GetJson(o2) = "raise" THEN TaskRaised
    ELSE TaskDone((IF GetJson(o1) = "payload" THEN <<Entry("order")>> ELSE <<>>)
               \o (IF GetJson(o2) = "payload" THEN <<Entry("order-event")>> ELSE <<>>))

\* _fetch_payments_by_ids / _fetch_payments_for_order /
\* _fetch_shipments_by_ids / _fetch_shipments_for_order: one GET here.
FetchOne(o, type) ==
    IF GetJson(o) = "raise" THEN TaskRaised
    ELSE TaskDone(IF GetJson(o) = "payload" THEN <<Entry(type)>> ELSE <<>>)

\* _build_entries, lines 190-202: the tasks the fan-out starts.
HasOrderTask == tlRefs.order_id /\ tlCfg.order_url
HasPaymentTask == tlCfg.payment_url /\ (tlRefs.payment_ids \/ tlRefs.order_id)
HasShipmentTask == tlCfg.fulfillment_url /\ (tlRefs.shipment_ids \/ tlRefs.order_id)

\* GETs a fan-out with these outcomes issues, and those that were answered.
OrderGets(o1, o2) == IF GetJson(o1) = "raise" THEN <<o1>> ELSE <<o1, o2>>
Issued(o) ==
    (IF HasOrderTask THEN OrderGets(o[1], o[2]) ELSE <<>>)
    \o (IF HasPaymentTask THEN <<o[3]>> ELSE <<>>)
    \o (IF HasShipmentTask THEN <<o[4]>> ELSE <<>>)
OkCount(gets) == Cardinality({i \in DOMAIN gets : gets[i] = "ok"})

\* What each of the four GETs of a fan-out met, None for a GET not issued.
Outcomes(o) ==
    [order    |-> IF HasOrderTask THEN o[1] ELSE None,
     events   |-> IF HasOrderTask /\ GetJson(o[1]) # "raise" THEN o[2] ELSE None,
     payment  |-> IF HasPaymentTask THEN o[3] ELSE None,
     shipment |-> IF HasShipmentTask THEN o[4] ELSE None]

\* A gather that lets the first exception of a task out.
GatherRaises == FALSE

\* timeline.py:207: asyncio.gather(*tasks, return_exceptions=True).
GatherReturnsExceptions == TRUE

\* _build_entries, lines 204-215: the results of the tasks, in task order,
\* without those that raised.
BuildEntries(o) ==
    LET t1 == IF HasOrderTask THEN FetchOrderData(o[1], o[2]) ELSE TaskDone(<<>>)
        t2 == IF HasPaymentTask THEN FetchOne(o[3], "payment") ELSE TaskDone(<<>>)
        t3 == IF HasShipmentTask THEN FetchOne(o[4], "shipment") ELSE TaskDone(<<>>)
    IN  [raised |-> ~GatherReturnsExceptions /\ (t1.raised \/ t2.raised \/ t3.raised),
         entries |-> t1.entries \o t2.entries \o t3.entries]

\* collect() returns `result` (or lets an exception out).
CollectDone(col, result, raised) ==
    tlCol' = [col EXCEPT !.pc = "done", !.result = result, !.raised = raised]

\* collect(), lines 161-165 when no cache is in use: fetch and return.
CollectUncached(o) ==
    LET built == BuildEntries(o)
        col   == [tlCol EXCEPT !.http = Len(Issued(o)), !.ok = OkCount(Issued(o)),
                               !.gets = Outcomes(o), !.fetched = TRUE]
    IN  /\ tlCol.pc = "idle"
        /\ ~CacheEnabled
        /\ CollectDone(col, IF built.raised THEN <<>> ELSE built.entries, built.raised)
        /\ UNCHANGED <<tlCfg, tlRefs, tlCache, tlRemote>>
        /\ KeepNonTimeline

\* A cache access whose exception leaves collect().
CacheErrorRaises == FALSE

\* timeline.py:139 and 169: `except Exception` around the Redis get and set.
CacheErrorSwallowed == TRUE

\* collect(), lines 135-159: the read of the cache; `answers` is whether
\* Redis answers the GET. A read that raises counts a failure of stage
\* "cache" and goes on as a miss.
CollectGet(answers) ==
    /\ tlCol.pc = "idle"
    /\ CacheEnabled
    /\ IF ~answers
       THEN IF CacheErrorSwallowed
            THEN tlCol' = [tlCol EXCEPT !.pc = "fetch", !.seen = "error",
                                        !.failures = @ + 1,
                                        !.afterInvalidate = tlCache.invalidated]
            ELSE CollectDone([tlCol EXCEPT !.seen = "error"], <<>>, TRUE)
       ELSE IF ~tlCache.present
       THEN tlCol' = [tlCol EXCEPT !.pc = "fetch", !.seen = "absent",
                                   !.afterInvalidate = tlCache.invalidated]
       ELSE IF ~tlCache.valid
       THEN tlCol' = [tlCol EXCEPT !.pc = "purge", !.seen = "corrupt",
                                   !.afterInvalidate = tlCache.invalidated]
       ELSE CollectDone([tlCol EXCEPT !.seen = "valid", !.cached = tlCache.src,
                                      !.age = tlCache.age,
                                      !.afterInvalidate = tlCache.invalidated],
                        JsonLoads(tlCache), FALSE)
    /\ tlCache' = [tlCache EXCEPT !.invalidated = FALSE]
    /\ UNCHANGED <<tlCfg, tlRefs, tlRemote>>
    /\ KeepNonTimeline

\* collect(), lines 149-150: the delete of a value that does not decode, its
\* exception suppressed.
CollectPurge(answers) ==
    /\ tlCol.pc = "purge"
    /\ tlCache' = IF answers THEN Dropped(tlCache) ELSE tlCache
    /\ tlCol' = [tlCol EXCEPT !.pc = "fetch"]
    /\ UNCHANGED <<tlCfg, tlRefs, tlRemote>>
    /\ KeepNonTimeline

\* collect(), line 162: _build_entries after a miss.
CollectFetch(o) ==
    LET built == BuildEntries(o)
        col   == [tlCol EXCEPT !.http = Len(Issued(o)), !.ok = OkCount(Issued(o)),
                               !.gets = Outcomes(o), !.entries = built.entries,
                               !.fetched = TRUE]
    IN  /\ tlCol.pc = "fetch"
        /\ IF built.raised
           THEN CollectDone(col, <<>>, TRUE)
           ELSE tlCol' = [col EXCEPT !.pc = "set"]
        /\ UNCHANGED <<tlCfg, tlRefs, tlCache, tlRemote>>
        /\ KeepNonTimeline

\* A write whose expiry is twice the configured TTL.
SetExpiryTwice(cache_ttl) == 2 * cache_ttl

\* timeline.py:168: redis.set(..., ex=self._cache_ttl).
SetExpiry(cache_ttl) == cache_ttl

\* collect(), lines 166-174: the best-effort write of the cache.
CollectSet(answers) ==
    /\ tlCol.pc = "set"
    /\ tlCache' = IF answers
                  THEN [present |-> TRUE, valid |-> JsonDumps(tlCol.entries).valid,
                        body |-> JsonDumps(tlCol.entries).body, src |-> tlCol.entries,
                        ttl |-> SetExpiry(tlCfg.cache_ttl), age |-> 0,
                        invalidated |-> tlCache.invalidated]
                  ELSE tlCache
    /\ IF answers
       THEN CollectDone([tlCol EXCEPT !.stored = "ok", !.invalidatedSinceFetch = FALSE],
                        tlCol.entries, FALSE)
       ELSE IF CacheErrorSwallowed
       THEN CollectDone([tlCol EXCEPT !.stored = "error", !.failures = @ + 1,
                                      !.invalidatedSinceFetch = FALSE],
                        tlCol.entries, FALSE)
       ELSE CollectDone([tlCol EXCEPT !.stored = "error",
                                      !.invalidatedSinceFetch = FALSE], <<>>, TRUE)
    /\ UNCHANGED <<tlCfg, tlRefs, tlRemote>>
    /\ KeepNonTimeline

\* The caller of collect() takes the result.
CollectReturn ==
    /\ tlCol.pc = "done"
    /\ tlCol' = IdleCollect
    /\ UNCHANGED <<tlCfg, tlRefs, tlCache, tlRemote>>
    /\ KeepNonTimeline

\* invalidate(), lines 176-185.
Invalidate(answers) ==
    /\ CacheEnabled
    /\ tlCache' = IF answers THEN [NoCache EXCEPT !.invalidated = TRUE] ELSE tlCache
    /\ tlCache' # tlCache
    /\ tlCol' = IF answers /\ tlCol.pc = "set"
                THEN [tlCol EXCEPT !.invalidatedSinceFetch = TRUE]
                ELSE tlCol
    /\ UNCHANGED <<tlCfg, tlRefs, tlRemote>>
    /\ KeepNonTimeline

\* One second passes: the TTL of the cached value runs down, and Redis drops
\* the value when it reaches zero.
CacheTick ==
    /\ tlCache.present
    /\ tlCache' = IF tlCache.ttl > 1
                  THEN [tlCache EXCEPT !.ttl = @ - 1, !.age = @ + 1]
                  ELSE Dropped(tlCache)
    /\ UNCHANGED <<tlCfg, tlRefs, tlRemote, tlCol>>
    /\ KeepNonTimeline

\* The order, payment and fulfillment services change what they answer.
RemoteChanges ==
    /\ tlRemote < MaxRemoteVersion
    /\ tlRemote' = tlRemote + 1
    /\ UNCHANGED <<tlCfg, tlRefs, tlCache, tlCol>>
    /\ KeepNonTimeline

InitTimeline ==
    /\ tlCfg \in TimelineConfigs
    /\ tlRefs \in TimelineReferences
    /\ tlCache \in {NoCache, CorruptCache}
    /\ tlCache.present => CacheEnabled
    /\ tlRemote = 0
    /\ tlCol = IdleCollect

FanOutOutcomes == [1..4 -> GetOutcomes]

NextTimeline ==
    \/ \E o \in FanOutOutcomes : CollectUncached(o)
    \/ \E answers \in BOOLEAN : CollectGet(answers)
    \/ \E answers \in BOOLEAN : CollectPurge(answers)
    \/ \E o \in FanOutOutcomes : CollectFetch(o)
    \/ \E answers \in BOOLEAN : CollectSet(answers)
    \/ CollectReturn
    \/ \E answers \in BOOLEAN : Invalidate(answers)
    \/ CacheTick
    \/ RemoteChanges


(***************************************************************************)
(* Support service: ticket mutations                                       *)
(***************************************************************************)

\* Bound: conversations and attachments of one ticket.
MaxRecords == 1

\* Whether the ticket can take one more conversation or attachment.
HasRoom(row) == row.messages + row.attachments < MaxRecords

TicketIds == {"t1", "t2"}

ALLOWED_STATUS == {"open", "pending", "resolved", "closed"}

\* Status values a client sends in ?status=...
RawTicketStatuses == ALLOWED_STATUS \cup {"RESOLVED", "escalated"}

\* str.lower() on the values above.
Lower(raw) == IF raw = "RESOLVED" THEN "resolved" ELSE raw

\* A normalisation that keeps what the client sent.
NormalizeStatusKeeps(value) == Lower(value)

NormalizeStatus(value) ==
    IF Lower(value) \in ALLOWED_STATUS THEN Lower(value) ELSE "open"

\* How the app is wired: the aggregator may be absent, may have no Redis
\* client, or may have cache_ttl <= 0; storage and publisher are optional.
CacheSetups == {"enabled", "no_aggregator", "no_redis", "ttl_zero"}
\* The configurations explored: everything wired, or one part missing.
SupportConfigs ==
    {[cache |-> c, storage |-> TRUE, publisher |-> TRUE] : c \in CacheSetups}
    \cup {[cache |-> "enabled", storage |-> FALSE, publisher |-> TRUE],
          [cache |-> "enabled", storage |-> TRUE, publisher |-> FALSE]}

NoTicket == [exists |-> FALSE, status |-> None, messages |-> 0, attachments |-> 0]
\* delivered: the broker handed the event of the request to a subscriber.
NoRequest == [op |-> None, ticket |-> None, ok |-> FALSE, error |-> None,
              deletes |-> {}, requested |-> None, delivered |-> FALSE]

\* An invalidation that reaches no key.
InvalidateNothing(ticket_id) == {}

\* SupportService._invalidate_timeline_cache and TimelineAggregator.invalidate:
\* the keys a DELETE is sent for.
InvalidateTimelineCache(ticket_id) ==
    IF supCfg.cache = "no_aggregator" THEN {}
    ELSE IF supCfg.cache \in {"no_redis", "ttl_zero"} THEN {}
    ELSE {ticket_id}

\* The keys after the invalidation; a DELETE that raises leaves the key.
KeysAfterInvalidate(ticket_id, answers) ==
    [k \in TicketIds |->
        IF k \in InvalidateTimelineCache(ticket_id) /\ answers THEN FALSE
        ELSE supKeys[k]]

\* SupportEventPublisher: nothing is sent without a publisher; a send may raise.
PublishRaises(needed, publishOk) == supCfg.publisher /\ needed /\ ~publishOk

\* The end of a mutating request: the invalidation, then the publish; an
\* exception rolls the session back (lifespan_session), a return commits it.
\* The producer is connected when the app starts (main.py), so a send that
\* raises does so with the exception of a subscriber's handler, which the
\* broker had called with the event (kafka.py: _InMemoryBroker.publish).
FinishMutation(op, t, row, requested, answers, needed, publishOk) ==
    /\ supKeys' = KeysAfterInvalidate(t, answers)
    /\ IF PublishRaises(needed, publishOk)
       THEN /\ UNCHANGED supTickets
            /\ supLast' = [op |-> op, ticket |-> t, ok |-> FALSE, error |-> "publish",
                           deletes |-> InvalidateTimelineCache(t),
                           requested |-> requested, delivered |-> TRUE]
       ELSE /\ supTickets' = [supTickets EXCEPT ![t] = row]
            /\ supLast' = [op |-> op, ticket |-> t, ok |-> TRUE, error |-> None,
                           deletes |-> InvalidateTimelineCache(t),
                           requested |-> requested,
                           delivered |-> supCfg.publisher /\ needed]
    /\ UNCHANGED supCfg
    /\ KeepNonSupport

\* A request that ends before the service changes anything.
RejectRequest(op, t, error, requested) ==
    /\ supLast' = [op |-> op, ticket |-> t, ok |-> FALSE, error |-> error,
                   deletes |-> {}, requested |-> requested, delivered |-> FALSE]
    /\ UNCHANGED <<supCfg, supTickets, supKeys>>
    /\ KeepNonSupport

\* POST /support/cases
CreateTicket(t, withMessage, answers, publishOk) ==
    /\ ~supTickets[t].exists
    /\ FinishMutation("create_ticket", t,
                      [exists |-> TRUE, status |-> "open",
                       messages |-> IF withMessage THEN 1 ELSE 0, attachments |-> 0],
                      None, answers, TRUE, publishOk)

\* Any route on a ticket id the repository does not find: 404.
TicketNotFound(op, t) ==
    /\ ~supTickets[t].exists
    /\ RejectRequest(op, t, "not_found", None)

\* GET /support/cases/{id}?includeTimeline=true, seen from the cache: a
\* collect() that stores the timeline it built.
GetTicketTimeline(t) ==
    /\ supTickets[t].exists
    /\ supCfg.cache = "enabled"
    /\ ~supKeys[t]
    /\ supKeys' = [supKeys EXCEPT ![t] = TRUE]
    /\ supLast' = [op |-> "get_ticket", ticket |-> t, ok |-> TRUE, error |-> None,
                   deletes |-> {}, requested |-> None, delivered |-> FALSE]
    /\ UNCHANGED <<supCfg, supTickets>>
    /\ KeepNonSupport

\* POST /support/cases/{id}/messages
AddMessage(t, answers, publishOk) ==
    /\ supTickets[t].exists
    /\ HasRoom(supTickets[t])
    /\ FinishMutation("add_message", t,
                      [supTickets[t] EXCEPT !.messages = @ + 1],
                      None, answers, TRUE, publishOk)

\* POST /support/cases/{id}/status?status=...
SupportUpdateStatus(t, raw, answers, publishOk) ==
    /\ supTickets[t].exists
    /\ FinishMutation("update_status", t,
                      [supTickets[t] EXCEPT !.status = NormalizeStatus(raw)],
                      raw, answers,
                      supTickets[t].status # NormalizeStatus(raw), publishOk)

\* POST /support/cases/{id}/attachments without storage: 503 from the route.
UploadWithoutStorage(t) ==
    /\ supTickets[t].exists
    /\ ~supCfg.storage
    /\ RejectRequest("upload_attachment", t, "storage", None)

\* POST /support/cases/{id}/attachments whose storage.save raises.
UploadSaveRaises(t) ==
    /\ supTickets[t].exists
    /\ supCfg.storage
    /\ RejectRequest("upload_attachment", t, "save", None)

\* POST /support/cases/{id}/attachments
UploadAttachment(t, answers, publishOk) ==
    /\ supTickets[t].exists
    /\ supCfg.storage
    /\ HasRoom(supTickets[t])
    /\ FinishMutation("upload_attachment", t,
                      [supTickets[t] EXCEPT !.attachments = @ + 1],
                      None, answers, TRUE, publishOk)

\* POST /support/cases/{id}/close
CloseTicket(t, withMessage, answers, publishOk) ==
    /\ supTickets[t].exists
    /\ withMessage => HasRoom(supTickets[t])
    /\ FinishMutation("close_ticket", t,
                      [supTickets[t] EXCEPT
                          !.status = "closed",
                          !.messages = IF withMessage THEN @ + 1 ELSE @],
                      "closed", answers,
                      withMessage \/ supTickets[t].status # "closed", publishOk)

InitSupport ==
    /\ supCfg \in SupportConfigs
    /\ supTickets = [t \in TicketIds |-> NoTicket]
    /\ supKeys = [t \in TicketIds |-> FALSE]
    /\ supLast = NoRequest

SupportOps == {"add_message", "update_status", "upload_attachment", "close_ticket"}

\* What Redis may do with a DELETE, and the producer with a send, when the
\* request reaches them.
DeleteAnswers == IF supCfg.cache = "enabled" THEN BOOLEAN ELSE {TRUE}
SendAnswers == IF supCfg.publisher THEN BOOLEAN ELSE {TRUE}

NextSupport ==
    \/ \E t \in TicketIds, m \in BOOLEAN, a \in DeleteAnswers, p \in SendAnswers :
          CreateTicket(t, m, a, p)
    \/ \E t \in TicketIds, op \in SupportOps : TicketNotFound(op, t)
    \/ \E t \in TicketIds : GetTicketTimeline(t)
    \/ \E t \in TicketIds, a \in DeleteAnswers, p \in SendAnswers :
          AddMessage(t, a, p)
    \/ \E t \in TicketIds, raw \in RawTicketStatuses, a \in DeleteAnswers,
          p \in SendAnswers :
          SupportUpdateStatus(t, raw, a, p)
    \/ \E t \in TicketIds : UploadWithoutStorage(t)
    \/ \E t \in TicketIds : UploadSaveRaises(t)
    \/ \E t \in TicketIds, a \in DeleteAnswers, p \in SendAnswers :
          UploadAttachment(t, a, p)
    \/ \E t \in TicketIds, m \in BOOLEAN, a \in DeleteAnswers, p \in SendAnswers :
          CloseTicket(t, m, a, p)

(***************************************************************************)
(* Notification service: send / fail / batch / domain events               *)
(***************************************************************************)

\* Bound: events recorded for one notification.
MaxNotificationEvents == 3

NotificationIds == {1, 2}
Channels == {"email", "sms"}

\* The messages a client posts to /fail.
FailReasons == {"provider_error: smtp timeout", "bounced"}

NoNotification == [exists |-> FALSE, channel |-> None, status |-> None,
                   error_message |-> None, events |-> <<>>, job_id |-> 0]

\* provider: calls of provider.send; limiter: "denied" when limiter.allow
\* answered False;
\* pref: the stored preference an event handler found; outcome: what the
\* event handler returned.
NoNotificationRequest == [op |-> None, id |-> 0, code |-> 0, raised |-> None,
                          added |-> <<>>, failures |-> 0, provider |-> 0,
                          limiter |-> None, pref |-> None, outcome |-> None]

\* Whether one more event fits the bound of the model.
CanRecord(id) == Len(ntfRows[id].events) < MaxNotificationEvents

\* A check of the status that never finds a notification sent.
AlreadySentNever(row) == FALSE

\* send_notification (route): notification.status == "sent"
AlreadySent(row) == row.status = "sent"

\* A limiter whose answer is not looked at.
RateLimitNeverExceeded(amount, allowed) == FALSE

\* _enforce_rate_limit raises RateLimitExceeded when a limiter is wired in,
\* the amount is positive and limiter.allow answers False.
RateLimitExceeded(amount, allowed) ==
    amount > 0 /\ ntfCfg.rate_limiter /\ ~allowed

\* POST /notifications
CreateNotification(id, channel) ==
    /\ ~ntfRows[id].exists
    /\ ntfRows' = [ntfRows EXCEPT ![id] =
                      [exists |-> TRUE, channel |-> channel, status |-> "pending",
                       error_message |-> None, events |-> <<"created">>,
                       job_id |-> 0]]
    /\ ntfLast' = [NoNotificationRequest EXCEPT !.op = "create", !.id = id,
                      !.code = 201, !.added = <<"created">>]
    /\ UNCHANGED <<ntfCfg, ntfCounters, ntfPrefs, ntfJobs>>
    /\ KeepNonNotification

\* A request that changes nothing in the database.
NotificationRefused(op, id, code, raised) ==
    /\ ntfLast' = [NoNotificationRequest EXCEPT
                      !.op = op, !.id = id, !.code = code, !.raised = raised,
                      !.limiter = IF raised = "rate_limit" THEN "denied" ELSE None]
    /\ UNCHANGED <<ntfCfg, ntfRows, ntfCounters, ntfPrefs, ntfJobs>>
    /\ KeepNonNotification

\* POST /notifications/{id}/send or /fail on an unknown id: 404.
NotificationNotFound(op, id) ==
    /\ ~ntfRows[id].exists
    /\ NotificationRefused(op, id, 404, None)

\* POST /notifications/{id}/send on a notification already sent: 409.
SendAlreadySent(id) ==
    /\ ntfRows[id].exists
    /\ AlreadySent(ntfRows[id])
    /\ NotificationRefused("send", id, 409, None)

\* send_notification whose limiter answers False: RateLimitExceeded, 429.
SendRateLimited(id) ==
    /\ ntfRows[id].exists
    /\ ~AlreadySent(ntfRows[id])
    /\ RateLimitExceeded(1, FALSE)
    /\ NotificationRefused("send", id, 429, "rate_limit")

\* send_notification has no handler around provider.send: the exception
\* leaves the row, its events and the counters as they were.
ProviderErrorPropagates(row) == [row |-> row, added |-> <<>>, failures |-> 0]

\* send_notification whose provider.send raises: the exception reaches the
\* caller (500).
SendProviderRaises(id) ==
    /\ ntfRows[id].exists
    /\ ~AlreadySent(ntfRows[id])
    /\ ntfCfg.provider
    /\ ntfRows' = [ntfRows EXCEPT ![id] = ProviderErrorPropagates(@).row]
    /\ ntfCounters' = [ntfCounters EXCEPT
                          !.failure[ntfRows[id].channel] =
                              @ + ProviderErrorPropagates(ntfRows[id]).failures]
    /\ ntfLast' = [NoNotificationRequest EXCEPT
                      !.op = "send", !.id = id, !.code = 500, !.raised = "provider",
                      !.added = ProviderErrorPropagates(ntfRows[id]).added,
                      !.failures = ProviderErrorPropagates(ntfRows[id]).failures,
                      !.provider = 1]
    /\ UNCHANGED <<ntfCfg, ntfPrefs, ntfJobs>>
    /\ KeepNonNotification

\* send_notification that goes through: the provider is called when one is
\* wired in, then a "sent" event, status "sent".
SendNotification(id, allowed) ==
    /\ ntfRows[id].exists
    /\ ~AlreadySent(ntfRows[id])
    /\ ~RateLimitExceeded(1, allowed)
    /\ CanRecord(id)
    /\ ntfRows' = [ntfRows EXCEPT ![id] =
                      [@ EXCEPT !.status = "sent", !.error_message = None,
                                !.events = Append(@, "sent")]]
    /\ ntfCounters' = [ntfCounters EXCEPT !.sent[ntfRows[id].channel] = @ + 1]
    /\ ntfLast' = [NoNotificationRequest EXCEPT
                      !.op = "send", !.id = id, !.code = 200, !.added = <<"sent">>,
                      !.provider = IF ntfCfg.provider THEN 1 ELSE 0,
                      !.limiter = IF ntfCfg.rate_limiter /\ ~allowed
                                       THEN "denied" ELSE None]
    /\ UNCHANGED <<ntfCfg, ntfPrefs, ntfJobs>>
    /\ KeepNonNotification

\* POST /notifications/{id}/fail: a "failed" event, status "failed".
FailNotification(id, reason) ==
    /\ ntfRows[id].exists
    /\ CanRecord(id)
    /\ ntfRows' = [ntfRows EXCEPT ![id] =
                      [@ EXCEPT !.status = "failed", !.error_message = reason,
                                !.events = Append(@, "failed")]]
    /\ ntfCounters' = [ntfCounters EXCEPT !.failure[ntfRows[id].channel] = @ + 1]
    /\ ntfLast' = [NoNotificationRequest EXCEPT
                      !.op = "fail", !.id = id, !.code = 200, !.added = <<"failed">>,
                      !.failures = 1]
    /\ UNCHANGED <<ntfCfg, ntfPrefs, ntfJobs>>
    /\ KeepNonNotification

\* POST /notifications/batch: 404 without the template, 422 without
\* recipients, 429 (and a rollback) when the limiter refuses the n recipients;
\* else a job and one pending notification for each recipient.
ScheduleBatch(template, n, allowed) ==
    LET free == {id \in NotificationIds : ~ntfRows[id].exists}
        ids == CHOOSE S \in SUBSET free :
                   Cardinality(S) = n /\ \A i \in S, j \in free \ S : i < j
        job == Len(ntfJobs) + 1
    IN  IF template = None THEN NotificationRefused("batch", 0, 404, None)
        ELSE IF n = 0 THEN NotificationRefused("batch", 0, 422, None)
        ELSE IF RateLimitExceeded(n, allowed)
        THEN NotificationRefused("batch", 0, 429, "rate_limit")
        ELSE /\ n <= Cardinality(free)
             /\ ntfJobs' = Append(ntfJobs, [status |-> "completed", total_count |-> n,
                                            processed_count |-> n])
             /\ ntfRows' = [id \in NotificationIds |->
                               IF id \in ids
                               THEN [exists |-> TRUE, channel |-> template,
                                     status |-> "pending", error_message |-> None,
                                     events |-> <<>>, job_id |-> job]
                               ELSE ntfRows[id]]
             /\ ntfLast' = [NoNotificationRequest EXCEPT
                               !.op = "batch", !.id = job, !.code = 202,
                               !.limiter = IF ntfCfg.rate_limiter /\ ~allowed
                                       THEN "denied" ELSE None]
             /\ UNCHANGED <<ntfCfg, ntfCounters, ntfPrefs>>
             /\ KeepNonNotification

\* value.strip().lower() of PreferenceEntry and of the event handlers.
NormalizeChannel(raw) ==
    CASE raw = "Email" -> "email"
      [] raw = " sms " -> "sms"
      [] OTHER -> raw

\* PUT /notifications/preferences/{customer_id} with one entry.
UpdatePreferences(customer_id, raw, opt_in) ==
    /\ ntfPrefs' = [ntfPrefs EXCEPT ![customer_id][NormalizeChannel(raw)] =
                       IF opt_in THEN "in" ELSE "out"]
    /\ ntfLast' = [NoNotificationRequest EXCEPT
                      !.op = "preferences", !.id = customer_id, !.code = 200]
    /\ UNCHANGED <<ntfCfg, ntfRows, ntfCounters, ntfJobs>>
    /\ KeepNonNotification

\* An event handler that does not look at the preferences.
IsOptedInIgnoresPreference(customer_id, channel) == TRUE

\* _is_opted_in: the opt_in of the stored entry of the channel, True when
\* the customer has none.
IsOptedIn(customer_id, channel) ==
    IF ntfPrefs[customer_id][channel] = "none" THEN TRUE
    ELSE ntfPrefs[customer_id][channel] = "in"

\* handle(topic, payload) for a support, order or shipment event of a
\* customer: no recipient drops the event; an opted-out customer gets
\* nothing; else the notification is created and sent, marked failed when
\* the limiter refuses, and the session is rolled back when the provider
\* raises.
HandleEvent(customer_id, raw, recipient, allowed, provider_ok) ==
    LET channel == NormalizeChannel(raw)
        id == CHOOSE i \in NotificationIds :
                  /\ ~ntfRows[i].exists
                  /\ \A j \in NotificationIds : ~ntfRows[j].exists => i <= j
        event == [NoNotificationRequest EXCEPT !.op = "event"]
        found == [event EXCEPT !.pref = ntfPrefs[customer_id][channel]]
        row == [exists |-> TRUE, channel |-> channel, status |-> "pending",
                error_message |-> None, events |-> <<"created">>, job_id |-> 0]
    IN  /\ recipient \/ channel = "sms"
        /\ IF ~recipient
           THEN /\ ntfLast' = [event EXCEPT !.outcome = "no_recipient"]
                /\ UNCHANGED <<ntfRows, ntfCounters>>
           ELSE IF ~IsOptedIn(customer_id, channel)
           THEN /\ ntfLast' = [found EXCEPT !.outcome = "opted_out"]
                /\ UNCHANGED <<ntfRows, ntfCounters>>
           ELSE /\ \E i \in NotificationIds : ~ntfRows[i].exists
                /\ IF RateLimitExceeded(1, allowed)
                   THEN /\ ntfRows' = [ntfRows EXCEPT ![id] =
                               [row EXCEPT !.status = "failed",
                                           !.error_message = "rate_limit_exceeded",
                                           !.events = <<"created", "failed">>]]
                        /\ ntfCounters' = [ntfCounters EXCEPT !.failure[channel] = @ + 1]
                        /\ ntfLast' = [found EXCEPT
                                          !.id = id, !.outcome = "rate_limited",
                                          !.added = <<"created", "failed">>,
                                          !.failures = 1, !.limiter = "denied"]
                   ELSE IF ntfCfg.provider /\ ~provider_ok
                   THEN /\ ntfLast' = [found EXCEPT
                                          !.raised = "provider", !.provider = 1,
                                          !.limiter = IF ntfCfg.rate_limiter /\ ~allowed
                                       THEN "denied" ELSE None]
                        /\ UNCHANGED <<ntfRows, ntfCounters>>
                   ELSE /\ ntfRows' = [ntfRows EXCEPT ![id] =
                               [row EXCEPT !.status = "sent",
                                           !.events = <<"created", "sent">>]]
                        /\ ntfCounters' = [ntfCounters EXCEPT !.sent[channel] = @ + 1]
                        /\ ntfLast' = [found EXCEPT
                                          !.id = id, !.outcome = "processed",
                                          !.added = <<"created", "sent">>,
                                          !.provider = IF ntfCfg.provider THEN 1 ELSE 0,
                                          !.limiter = IF ntfCfg.rate_limiter /\ ~allowed
                                       THEN "denied" ELSE None]
        /\ UNCHANGED <<ntfCfg, ntfPrefs, ntfJobs>>
        /\ KeepNonNotification

InitNotification ==
    /\ ntfCfg \in [provider : BOOLEAN, rate_limiter : BOOLEAN]
    /\ ntfRows = [id \in NotificationIds |-> NoNotification]
    /\ ntfCounters = [sent |-> [c \in Channels |-> 0], failure |-> [c \in Channels |-> 0]]
    /\ ntfLast = NoNotificationRequest
    /\ ntfPrefs = [customer_id \in {1, 2} |-> [c \in Channels |-> "none"]]
    /\ ntfJobs = <<>>

NextNotification ==
    \/ \E id \in NotificationIds, channel \in Channels : CreateNotification(id, channel)
    \/ \E id \in NotificationIds, op \in {"send", "fail"} : NotificationNotFound(op, id)
    \/ \E id \in NotificationIds : SendAlreadySent(id)
    \/ \E id \in NotificationIds : SendRateLimited(id)
    \/ \E id \in NotificationIds : SendProviderRaises(id)
    \/ \E id \in NotificationIds, allowed \in BOOLEAN : SendNotification(id, allowed)
    \/ \E id \in NotificationIds, reason \in FailReasons : FailNotification(id, reason)
    \/ \E template \in Channels \cup {None}, n \in 0 .. Cardinality(NotificationIds),
          allowed \in BOOLEAN : ScheduleBatch(template, n, allowed)

\* The preferences route and the handler of the events the service consumes.
NextNotificationEvents ==
    \/ \E customer_id \in DOMAIN ntfPrefs, raw \in {"Email", " sms "}, opt_in \in BOOLEAN :
          UpdatePreferences(customer_id, raw, opt_in)
    \/ \E customer_id \in DOMAIN ntfPrefs, raw \in {"Email", " sms "},
          recipient, allowed, provider_ok \in BOOLEAN :
          HandleEvent(customer_id, raw, recipient, allowed, provider_ok)


(***************************************************************************)
(* Inventory service                                                       *)
(***************************************************************************)

\* Bound: events recorded in inventory_events, over all items.
MaxInventoryEvents == 3

\* Bound: the largest quantity a request carries.
MaxQuantity == 2

NoItem == [exists |-> FALSE, sku |-> None, location |-> None,
           quantity_on_hand |-> 0, quantity_reserved |-> 0, events |-> <<>>]

\* A request slot that holds no request.
NoInventoryRequest ==
    [op |-> None, id |-> 0, quantity |-> 0,
     payload |-> [sku |-> None, location |-> None, quantity_on_hand |-> 0],
     item |-> NoItem]

\* Whether the event of one more request fits the bound of the model.
HasRoomForEvent ==
    LET RECURSIVE Recorded(_)
        Recorded(ids) == IF ids = {} THEN 0
                         ELSE LET id == CHOOSE i \in ids : TRUE
                              IN  Len(invItems[id].events) + Recorded(ids \ {id})
    IN  Recorded(DOMAIN invItems)
          + Cardinality({q \in DOMAIN invReq : invReq[q].op # None})
          < MaxInventoryEvents

\* The InventoryCreate schema: sku stripped, location stripped and None when
\* it is blank.
InventoryCreate(sku, location, quantity_on_hand) ==
    LET strip(s) == CASE s = " SKU-1 " -> "SKU-1"
                      [] s = "  " -> ""
                      [] OTHER -> s
        cleaned == IF location = None THEN None ELSE strip(location)
    IN  [sku |-> strip(sku),
         location |-> IF cleaned = "" THEN None ELSE cleaned,
         quantity_on_hand |-> quantity_on_hand]

\* POST /inventory up to the answer of find_by_sku: 409 when a row has the
\* sku and location, MultipleResultsFound (500) when several have.
CreateInventoryItemFind(r, payload) ==
    /\ invReq[r].op = None
    /\ LET existing == {id \in DOMAIN invItems :
                           /\ invItems[id].exists
                           /\ invItems[id].sku = payload.sku
                           /\ invItems[id].location = payload.location}
           free == {id \in DOMAIN invItems : ~invItems[id].exists}
           creating == {q \in DOMAIN invReq : invReq[q].op = "create"}
       IN  IF existing # {}
           THEN /\ invLast' = [op |-> "create", id |-> 0,
                               code |-> IF Cardinality(existing) > 1 THEN 500 ELSE 409]
                /\ UNCHANGED <<invItems, invReq>>
           ELSE /\ Cardinality(free) > Cardinality(creating)
                /\ HasRoomForEvent
                /\ invReq' = [invReq EXCEPT ![r] =
                                 [NoInventoryRequest EXCEPT !.op = "create",
                                                            !.payload = payload]]
                /\ UNCHANGED <<invItems, invLast>>
    /\ KeepNonInventory

\* POST /inventory from create_item to the commit of the session: the row
\* gets the next id and a "created" event.
CreateInventoryItem(r) ==
    /\ invReq[r].op = "create"
    /\ LET id == CHOOSE i \in DOMAIN invItems :
                     /\ ~invItems[i].exists
                     /\ \A j \in DOMAIN invItems : ~invItems[j].exists => i <= j
           payload == invReq[r].payload
       IN  /\ invItems' = [invItems EXCEPT ![id] =
                              [exists |-> TRUE, sku |-> payload.sku,
                               location |-> payload.location,
                               quantity_on_hand |-> payload.quantity_on_hand,
                               quantity_reserved |-> 0, events |-> <<"created">>]]
           /\ invLast' = [op |-> "create", id |-> id, code |-> 201]
    /\ invReq' = [invReq EXCEPT ![r] = NoInventoryRequest]
    /\ KeepNonInventory

\* get_item of PATCH /inventory/{id} and of POST /inventory/{id}/restock,
\* /reserve, /release, /commit: 404 when there is no row, else the request
\* goes on with the row it has loaded.  The PATCH carries no safetyStock.
GetItem(r, op, id, quantity) ==
    /\ invReq[r].op = None
    /\ IF ~invItems[id].exists
       THEN /\ invLast' = [op |-> op, id |-> id, code |-> 404]
            /\ UNCHANGED <<invItems, invReq>>
       ELSE /\ HasRoomForEvent
            /\ op = "restock" => invItems[id].quantity_on_hand + quantity <= MaxQuantity
            /\ invReq' = [invReq EXCEPT ![r] =
                             [NoInventoryRequest EXCEPT !.op = op, !.id = id,
                                                        !.quantity = quantity,
                                                        !.item = invItems[id]]]
            /\ UNCHANGED <<invItems, invLast>>
    /\ KeepNonInventory

\* An adjust_stock that does not compare with quantity_reserved.
AdjustStockUnchecked(item, quantity_on_hand) ==
    [error |-> FALSE, quantity_on_hand |-> quantity_on_hand,
     quantity_reserved |-> item.quantity_reserved, event |-> "adjusted"]

\* InventoryService.adjust_stock with safety_stock None.
AdjustStock(item, quantity_on_hand) ==
    IF quantity_on_hand < item.quantity_reserved
    THEN [error |-> TRUE, quantity_on_hand |-> item.quantity_on_hand,
          quantity_reserved |-> item.quantity_reserved, event |-> None]
    ELSE [error |-> FALSE, quantity_on_hand |-> quantity_on_hand,
          quantity_reserved |-> item.quantity_reserved, event |-> "adjusted"]

\* InventoryService.increment_stock
IncrementStock(item, quantity) ==
    IF quantity < 0
    THEN [error |-> TRUE, quantity_on_hand |-> item.quantity_on_hand,
          quantity_reserved |-> item.quantity_reserved, event |-> None]
    ELSE [error |-> FALSE, quantity_on_hand |-> item.quantity_on_hand + quantity,
          quantity_reserved |-> item.quantity_reserved, event |-> "stock_received"]

\* A reserve that compares the quantity with quantity_on_hand alone.
ReserveIgnoresReserved(item, quantity) ==
    IF quantity <= 0 \/ quantity > item.quantity_on_hand
    THEN [error |-> TRUE, quantity_on_hand |-> item.quantity_on_hand,
          quantity_reserved |-> item.quantity_reserved, event |-> None]
    ELSE [error |-> FALSE, quantity_on_hand |-> item.quantity_on_hand,
          quantity_reserved |-> item.quantity_reserved + quantity,
          event |-> "reserved"]

\* InventoryService.reserve
Reserve(item, quantity) ==
    LET available == item.quantity_on_hand - item.quantity_reserved
    IN  IF quantity <= 0 \/ quantity > available
        THEN [error |-> TRUE, quantity_on_hand |-> item.quantity_on_hand,
              quantity_reserved |-> item.quantity_reserved, event |-> None]
        ELSE [error |-> FALSE, quantity_on_hand |-> item.quantity_on_hand,
              quantity_reserved |-> item.quantity_reserved + quantity,
              event |-> "reserved"]

\* A release that takes the quantity off quantity_on_hand as well.
ReleaseTakesOnHand(item, quantity) ==
    IF quantity <= 0 \/ quantity > item.quantity_reserved
    THEN [error |-> TRUE, quantity_on_hand |-> item.quantity_on_hand,
          quantity_reserved |-> item.quantity_reserved, event |-> None]
    ELSE [error |-> FALSE, quantity_on_hand |-> item.quantity_on_hand - quantity,
          quantity_reserved |-> item.quantity_reserved - quantity,
          event |-> "released"]

\* InventoryService.release
Release(item, quantity) ==
    IF quantity <= 0 \/ quantity > item.quantity_reserved
    THEN [error |-> TRUE, quantity_on_hand |-> item.quantity_on_hand,
          quantity_reserved |-> item.quantity_reserved, event |-> None]
    ELSE [error |-> FALSE, quantity_on_hand |-> item.quantity_on_hand,
          quantity_reserved |-> item.quantity_reserved - quantity,
          event |-> "released"]

\* InventoryService.commit
Commit(item, quantity) ==
    IF \/ quantity <= 0
       \/ quantity > item.quantity_reserved
       \/ quantity > item.quantity_on_hand
    THEN [error |-> TRUE, quantity_on_hand |-> item.quantity_on_hand,
          quantity_reserved |-> item.quantity_reserved, event |-> None]
    ELSE [error |-> FALSE, quantity_on_hand |-> item.quantity_on_hand - quantity,
          quantity_reserved |-> item.quantity_reserved - quantity,
          event |-> "committed"]

\* update_quantities and add_event as the flush writes them: the UPDATE carries
\* the columns whose value differs from the one the request loaded, the event
\* is inserted.
UpdateQuantities(row, item, result) ==
    [row EXCEPT
        !.quantity_on_hand = IF result.quantity_on_hand # item.quantity_on_hand
                             THEN result.quantity_on_hand ELSE @,
        !.quantity_reserved = IF result.quantity_reserved # item.quantity_reserved
                              THEN result.quantity_reserved ELSE @,
        !.events = Append(@, result.event)]

\* The rest of PATCH /inventory/{id} and POST /inventory/{id}/restock,
\* /reserve, /release, /commit: the service call on the loaded row, then the
\* commit of the session, or the ValueError turned into 400 / 409.
ItemRequest(r) ==
    /\ invReq[r].op \notin {None, "create"}
    /\ LET q == invReq[r]
           result == CASE q.op = "adjust" -> AdjustStock(q.item, q.quantity)
                       [] q.op = "restock" -> IncrementStock(q.item, q.quantity)
                       [] q.op = "reserve" -> Reserve(q.item, q.quantity)
                       [] q.op = "release" -> Release(q.item, q.quantity)
                       [] q.op = "commit" -> Commit(q.item, q.quantity)
       IN  IF result.error
           THEN /\ invLast' = [op |-> q.op, id |-> q.id,
                               code |-> IF q.op \in {"adjust", "restock"}
                                        THEN 400 ELSE 409]
                /\ UNCHANGED invItems
           ELSE /\ invItems' = [invItems EXCEPT ![q.id] =
                                   UpdateQuantities(@, q.item, result)]
                /\ invLast' = [op |-> q.op, id |-> q.id, code |-> 200]
    /\ invReq' = [invReq EXCEPT ![r] = NoInventoryRequest]
    /\ KeepNonInventory

InitInventory ==
    /\ invItems = [id \in {1, 2} |-> NoItem]
    /\ invReq = [r \in {1, 2} |-> NoInventoryRequest]
    /\ invLast = [op |-> None, id |-> 0, code |-> 0]

\* A new request is handled in the first slot that holds none.
NextInventory ==
    LET FirstFree(r) == \A s \in DOMAIN invReq : invReq[s].op = None => r <= s
    IN
    \/ \E r \in DOMAIN invReq, sku \in {"SKU-1", " SKU-1 "}, location \in {"WH-1", "  "} :
          /\ FirstFree(r)
          /\ CreateInventoryItemFind(r, InventoryCreate(sku, location, MaxQuantity))
    \/ \E r \in DOMAIN invReq : CreateInventoryItem(r)
    \/ \E r \in DOMAIN invReq, id \in DOMAIN invItems, quantity \in 0 .. MaxQuantity,
          op \in {"adjust", "restock", "reserve", "release", "commit"} :
          /\ FirstFree(r)
          /\ op = "adjust" \/ quantity > 0
          /\ GetItem(r, op, id, quantity)
    \/ \E r \in DOMAIN invReq : ItemRequest(r)

\* The same requests handled one after the other: a request is taken up
\* only when none is in progress.
NextInventorySequential ==
    LET Idle == \A s \in DOMAIN invReq : invReq[s].op = None
    IN
    \/ \E sku \in {"SKU-1", " SKU-1 "}, location \in {"WH-1", "  "} :
          /\ Idle
          /\ CreateInventoryItemFind(1, InventoryCreate(sku, location, MaxQuantity))
    \/ CreateInventoryItem(1)
    \/ \E id \in DOMAIN invItems, quantity \in 0 .. MaxQuantity,
          op \in {"adjust", "restock", "reserve", "release", "commit"} :
          /\ Idle
          /\ op = "adjust" \/ quantity > 0
          /\ GetItem(1, op, id, quantity)
    \/ ItemRequest(1)


(***************************************************************************)
(* Cart service                                                            *)
(***************************************************************************)

\* Bound: the quantity of one SKU in a cart.
MaxCartQuantity == 2

\* A cart is [exists, items]; items maps every SKU to its quantity and
\* unit_price_cents, quantity 0 for a SKU the cart does not hold. Prices are
\* given in cents, as _to_cents hands them to the repository.

\* An add_item that overwrites the quantity of a SKU the cart holds.
AddItemReplacesQuantity(cart, sku, unit_price_cents, quantity) ==
    [cart EXCEPT !.items[sku] =
        [quantity |-> quantity, unit_price_cents |-> unit_price_cents]]

\* CartRepository.add_item: a SKU the cart holds gets the quantity added and
\* the unit price replaced; another SKU becomes a new item.
AddItem(cart, sku, unit_price_cents, quantity) ==
    IF cart.items[sku].quantity > 0
    THEN [cart EXCEPT !.items[sku] =
             [quantity |-> @.quantity + quantity,
              unit_price_cents |-> unit_price_cents]]
    ELSE [cart EXCEPT !.items[sku] =
             [quantity |-> quantity, unit_price_cents |-> unit_price_cents]]

\* CartRepository.clear_cart: every item of the cart is deleted.
ClearCart(cart) ==
    [cart EXCEPT !.items =
        [sku \in DOMAIN @ |-> [quantity |-> 0, unit_price_cents |-> 0]]]

\* POST /carts/{customer_id}/items: get_or_create_cart, then add_item.
AddItemRequest(customer_id, sku, unit_price_cents, quantity) ==
    LET cart == [carts[customer_id] EXCEPT !.exists = TRUE]
        updated == AddItem(cart, sku, unit_price_cents, quantity)
    IN  /\ updated.items[sku].quantity <= MaxCartQuantity
        /\ carts' = [carts EXCEPT ![customer_id] = updated]
        /\ cartLast' = [op |-> "add_item", from_customer_id |-> 0,
                        to_customer_id |-> customer_id, code |-> 201,
                        items |-> updated.items]
        /\ KeepNonCart

\* POST /carts/merge: get_cart of the source, get_or_create_cart of the
\* target; without a source cart the target is returned; else every item of
\* the source is added to the target and the source is cleared. Both
\* lookups of one customer id give the same cart.
MergeCarts(from_customer_id, to_customer_id) ==
    LET source == carts[from_customer_id]
        target == [carts[to_customer_id] EXCEPT !.exists = TRUE]
        held == {sku \in DOMAIN source.items : source.items[sku].quantity > 0}
        RECURSIVE AddAll(_, _)
        AddAll(cart, skus) ==
            IF skus = {} THEN cart
            ELSE LET sku == CHOOSE s \in skus : TRUE
                 IN  AddAll(AddItem(cart, sku, source.items[sku].unit_price_cents,
                                   source.items[sku].quantity),
                            skus \ {sku})
        added == [carts EXCEPT ![to_customer_id] =
                     IF source.exists THEN AddAll(target, held) ELSE target]
        after == IF source.exists
                 THEN [added EXCEPT ![from_customer_id] = ClearCart(@)]
                 ELSE added
    IN  /\ \A c \in DOMAIN after, sku \in DOMAIN source.items :
              after[c].items[sku].quantity <= MaxCartQuantity
        /\ carts' = after
        /\ cartLast' = [op |-> "merge", from_customer_id |-> from_customer_id,
                        to_customer_id |-> to_customer_id, code |-> 200,
                        items |-> after[to_customer_id].items]
        /\ KeepNonCart

InitCart ==
    /\ carts = [customer_id \in {1, 2} |->
                   [exists |-> FALSE,
                    items |-> [sku \in {"SKU-1", "SKU-2"} |->
                                  [quantity |-> 0, unit_price_cents |-> 0]]]]
    /\ cartLast = [op |-> None, from_customer_id |-> 0, to_customer_id |-> 0,
                   code |-> 0, items |-> carts[1].items]

NextCart ==
    \/ \E customer_id \in DOMAIN carts, sku \in {"SKU-1", "SKU-2"},
          unit_price_cents \in {210, 400}, quantity \in 1 .. MaxCartQuantity :
          AddItemRequest(customer_id, sku, unit_price_cents, quantity)
    \/ \E from_customer_id \in DOMAIN carts, to_customer_id \in DOMAIN carts :
          MergeCarts(from_customer_id, to_customer_id)

(***************************************************************************)
(* Specifications                                                          *)
(***************************************************************************)

\* Each specification runs one subsystem from all of its initial states,
\* the other subsystems staying in one fixed initial state.
QuietFulfillment == InitFulfillment

QuietRateLimiter == InitRateLimiter /\ rlRedis

QuietTimeline ==
    /\ InitTimeline
    /\ tlCfg = [redis |-> TRUE, cache_ttl |-> CacheTtl, order_url |-> TRUE,
                payment_url |-> TRUE, fulfillment_url |-> TRUE]
    /\ tlRefs = [order_id |-> TRUE, payment_ids |-> FALSE, shipment_ids |-> FALSE]
    /\ tlCache = NoCache

QuietSupport ==
    /\ InitSupport
    /\ supCfg = [cache |-> "enabled", storage |-> TRUE, publisher |-> TRUE]

QuietNotification ==
    /\ InitNotification
    /\ ntfCfg = [provider |-> TRUE, rate_limiter |-> TRUE]

InitOnlyFulfillment ==
    /\ InitFulfillment
    /\ QuietRateLimiter /\ QuietTimeline /\ QuietSupport /\ QuietNotification /\ InitInventory
    /\ InitCart

InitOnlyRateLimiter ==
    /\ InitRateLimiter
    /\ QuietFulfillment /\ QuietTimeline /\ QuietSupport /\ QuietNotification /\ InitInventory
    /\ InitCart

InitOnlyTimeline ==
    /\ InitTimeline
    /\ QuietFulfillment /\ QuietRateLimiter /\ QuietSupport /\ QuietNotification /\ InitInventory
    /\ InitCart

InitOnlySupport ==
    /\ InitSupport
    /\ QuietFulfillment /\ QuietRateLimiter /\ QuietTimeline /\ QuietNotification /\ InitInventory
    /\ InitCart

InitOnlyNotification ==
    /\ InitNotification
    /\ QuietFulfillment /\ QuietRateLimiter /\ QuietTimeline /\ QuietSupport /\ InitInventory
    /\ InitCart

InitOnlyInventory ==
    /\ InitInventory
    /\ QuietFulfillment /\ QuietRateLimiter /\ QuietTimeline /\ QuietSupport
    /\ QuietNotification
    /\ InitCart

InitOnlyCart ==
    /\ InitCart
    /\ QuietFulfillment /\ QuietRateLimiter /\ QuietTimeline /\ QuietSupport
    /\ QuietNotification /\ InitInventory

SpecFulfillment == InitOnlyFulfillment /\ [][NextFulfillment]_vars

SpecRateLimiter == InitOnlyRateLimiter /\ [][NextRateLimiter]_vars

SpecRateLimiterFaults == InitOnlyRateLimiter /\ [][NextRateLimiterFaults]_vars

SpecTimeline == InitOnlyTimeline /\ [][NextTimeline]_vars

SpecSupport == InitOnlySupport /\ [][NextSupport]_vars

SpecNotification == InitOnlyNotification /\ [][NextNotification]_vars

SpecNotificationEvents == InitOnlyNotification /\ [][NextNotificationEvents]_vars

SpecInventory == InitOnlyInventory /\ [][NextInventory]_vars

SpecInventorySequential == InitOnlyInventory /\ [][NextInventorySequential]_vars

SpecCart == InitOnlyCart /\ [][NextCart]_vars

(***************************************************************************)
(* Claims                                                                  *)
(***************************************************************************)

\* C1: a shipment status update from s to t succeeds only if t is listed in
\* the adjacency table for s; every other pair (in particular every
\* transition out of 'cancelled' and 'return_initiated') is rejected with
\* 409 and the shipment's status is left unchanged.
C1_OnlyTableTransitions ==
    shipResp.op = "update_status" /\ shipResp.from # None =>
        /\ shipResp.code = 200 => shipResp.target \in STATUS_TRANSITIONS[shipResp.from]
        /\ shipResp.target \notin STATUS_TRANSITIONS[shipResp.from] =>
              /\ shipResp.code = 409
              /\ shipments[shipResp.id].status = shipResp.from


\* C2: allow(channel, amount) with amount > 0 and a working Redis increments
\* the counter by amount; if the new count exceeds the limit the call takes
\* the same amount back and returns false (its net change of the counter is
\* zero), otherwise it returns true and the increment stays.
C2_IncrementThenRollbackOrKeep ==
    /\ \A c \in Callers :
          rlCall[c].pc \in {"expire", "decrby"} => rlCall[c].delta = rlCall[c].amount
    /\ rlRedis /\ rlLast.caller # None /\ rlLast.amount > 0 =>
          IF rlLast.count > Limit
          THEN rlLast.result = FALSE /\ rlLast.delta = 0
          ELSE rlLast.result = TRUE /\ rlLast.delta = rlLast.amount

\* A call with an amount above one was denied and rolled back.
C2_Witness ==
    /\ rlLast.caller # None /\ rlLast.amount > 1
    /\ rlLast.count > Limit /\ rlLast.result = FALSE /\ rlLast.delta = 0

\* C3: with no Redis failure, the amounts of the allow calls that returned
\* true within one window of a channel never sum to more than the limit,
\* whatever the interleaving of calls and key expiry.
C3_AllowedWithinLimit ==
    rlRedis /\ rlAge <= WindowSeconds => rlAllowed <= Limit

\* C4 as stated: whichever Redis operation of allow raises, the call returns
\* true and the error counter of that operation is incremented.
C4_AnyRedisErrorAllows ==
    /\ \A op \in RedisOps : rlErrors[op] = rlRaised[op]
    /\ rlLast.failed # {} => rlLast.result = TRUE

\* C4 as amended: a raising incrby or decrby makes the call return true; a
\* raising expire is only counted and the call decides on the count (false
\* after the rollback when the count exceeds the limit, true otherwise);
\* every raising operation increments the error counter of its label.
C4_FailOpenExceptExpire ==
    /\ \A op \in RedisOps : rlErrors[op] = rlRaised[op]
    /\ "incrby" \in rlLast.failed => rlLast.result = TRUE
    /\ "decrby" \in rlLast.failed => rlLast.result = TRUE
    /\ rlLast.failed = {"expire"} => (rlLast.result = (rlLast.count <= Limit))

\* The rollback decrby of a call raised and the call allowed.
C4_Witness ==
    /\ "decrby" \in rlLast.failed /\ rlLast.result = TRUE
    /\ rlErrors["decrby"] = 1

\* C10: the window resets when the key's TTL expires: in every reachable
\* counter state (also after a rollback decrement) a counter that denies
\* further calls sits in a key that carries a TTL, so that the channel is
\* allowed again once the window has passed.
C10_DenyingKeyExpires ==
    /\ rlRedis /\ rlKey.exists /\ rlKey.value >= Limit
    /\ \A c \in Callers : rlCall[c].pc = "idle"
    => rlKey.ttl # NoTtl

\* C5: collect never raises to its caller, whatever Redis and the downstream
\* services do; it returns an empty list when the ticket has no references
\* and when every remote call fails.
C5_CollectNeverRaises ==
    /\ ~tlCol.raised
    /\ tlCol.pc = "done" /\ tlRefs = [order_id |-> FALSE, payment_ids |-> FALSE,
                                      shipment_ids |-> FALSE]
          => tlCol.result = <<>>
    /\ tlCol.pc = "done" /\ tlCol.http > 0 /\ tlCol.ok = 0 => tlCol.result = <<>>

\* A collect whose cache read raised and whose every GET failed returned [].
C5_Witness ==
    /\ tlCol.pc = "done" /\ tlCol.seen = "error"
    /\ tlCol.http >= 3 /\ tlCol.ok = 0
    /\ tlCol.result = <<>> /\ ~tlCol.raised

\* C6: when a valid cached timeline exists and Redis answers the read,
\* collect returns the cached entries, those the collect that wrote the
\* cache returned, and issues no HTTP request.
C6_CacheHitServesCached ==
    tlCol.pc = "done" /\ tlCol.seen = "valid" =>
        /\ tlCol.result = tlCol.cached
        /\ tlCol.http = 0
        /\ ~tlCol.raised

\* A collect was served two or more entries from the cache.
C6_Witness ==
    /\ tlCol.pc = "done" /\ tlCol.seen = "valid"
    /\ Len(tlCol.result) >= 2 /\ tlCol.http = 0

\* C7: with the timeline cache in use, every successful ticket mutation (a
\* new message, a status change, a new attachment, closing the ticket) has
\* issued a delete of that ticket's timeline cache key when it returns.
C7_MutationDeletesCacheKey ==
    supLast.ok /\ supLast.op \in SupportOps /\ supCfg.cache = "enabled" =>
        supLast.deletes = {supLast.ticket}

\* An attachment upload returned after a delete of the ticket's key that
\* Redis failed to carry out: the key is still set.
C7_Witness ==
    /\ supLast.ok /\ supLast.op = "upload_attachment"
    /\ supLast.ticket \in supLast.deletes
    /\ supKeys[supLast.ticket]

C9_ProviderFailureMarksFailed ==
    ntfLast.op = "send" /\ ntfLast.raised = "provider" =>
        /\ ntfRows[ntfLast.id].status = "failed"
        /\ ntfRows[ntfLast.id].error_message = "provider_error: smtp timeout"
        /\ ntfLast.added = <<"failed">>
        /\ ntfLast.failures = 1

\* C11: the TTL of the counter key is set to window_seconds by the increment
\* that creates the key, and later increments of the same window neither set
\* nor extend it: a step raises the TTL only of a key that has none yet.
C11_TtlSetOnceByFirstIncrement ==
    [][rlKey.exists /\ rlKey'.exists /\ rlKey'.ttl > rlKey.ttl
          => rlKey.ttl = NoTtl]_vars

\* C12: in the fan-out every downstream failure is isolated: a collect that
\* fetched returns exactly the entries of the requests (order, order events,
\* payments, shipments) that succeeded, in task order; a failing request
\* neither aborts the aggregation nor removes the entry of a successful one.
C12_FailuresIsolated ==
    tlCol.pc = "done" /\ tlCol.seen # "valid" =>
        /\ ~tlCol.raised
        /\ [i \in DOMAIN tlCol.result |-> tlCol.result[i].type] =
              (IF tlCol.gets.order = "ok" THEN <<"order">> ELSE <<>>)
              \o (IF tlCol.gets.events = "ok" THEN <<"order-event">> ELSE <<>>)
              \o (IF tlCol.gets.payment = "ok" THEN <<"payment">> ELSE <<>>)
              \o (IF tlCol.gets.shipment = "ok" THEN <<"shipment">> ELSE <<>>)

\* C12 amended: failures are isolated per task. A request that fails with an
\* error _get_json catches (an HTTP error, invalid JSON) removes nothing but
\* its own entry; a request of the order task that raises anything else
\* removes the entries of both order requests; the payment and shipment
\* entries never depend on another request, and nothing aborts the collect.
C12_TaskFailuresIsolated ==
    tlCol.pc = "done" /\ tlCol.seen # "valid" =>
        /\ ~tlCol.raised
        /\ [i \in DOMAIN tlCol.result |-> tlCol.result[i].type] =
              (IF "other_error" \in {tlCol.gets.order, tlCol.gets.events} THEN <<>>
               ELSE (IF tlCol.gets.order = "ok" THEN <<"order">> ELSE <<>>)
                    \o (IF tlCol.gets.events = "ok" THEN <<"order-event">> ELSE <<>>))
              \o (IF tlCol.gets.payment = "ok" THEN <<"payment">> ELSE <<>>)
              \o (IF tlCol.gets.shipment = "ok" THEN <<"shipment">> ELSE <<>>)

\* A fan-out whose order-events request met an HTTP error and whose payment
\* request raised something else returned the order and shipment entries.
C12_Witness ==
    /\ tlCol.pc = "done" /\ tlCol.seen # "valid"
    /\ tlCol.gets = [order |-> "ok", events |-> "caught_error",
                     payment |-> "other_error", shipment |-> "ok"]
    /\ Len(tlCol.result) = 2
    /\ tlCol.result[1].type = "order" /\ tlCol.result[2].type = "shipment"

\* C13: a Redis error while reading the cache is treated as a miss (collect
\* goes on to fetch from the downstream services and a failure is counted),
\* and a Redis error while writing the cache does not fail the request:
\* collect still returns the entries it has just fetched.
C13_CacheErrorsSwallowed ==
    /\ tlCol.seen = "error" =>
          /\ tlCol.pc \in {"fetch", "set", "done"}
          /\ tlCol.failures >= 1
          /\ tlCol.pc = "done" =>
                tlCol.fetched /\ ~tlCol.raised /\ tlCol.result = tlCol.entries
    /\ tlCol.pc = "done" /\ tlCol.stored = "error" =>
          /\ tlCol.fetched /\ ~tlCol.raised
          /\ tlCol.result = tlCol.entries
          /\ tlCol.failures = (IF tlCol.seen = "error" THEN 2 ELSE 1)

\* A collect whose cache read and cache write both raised returned the
\* entries it fetched.
C13_Witness ==
    /\ tlCol.pc = "done" /\ tlCol.seen = "error" /\ tlCol.stored = "error"
    /\ tlCol.fetched /\ tlCol.ok >= 2 /\ Len(tlCol.result) >= 2
    /\ tlCol.failures = 2

\* C14: staleness of a cached timeline is bounded by the TTL, also when no
\* invalidation goes through: collect never returns a cache entry more than
\* cache_ttl seconds after it was written.
C14_StalenessWithinTtl ==
    /\ tlCache.present => tlCache.age < tlCfg.cache_ttl
    /\ tlCol.pc = "done" /\ tlCol.seen = "valid" => tlCol.age <= tlCfg.cache_ttl

\* A collect returned, in the last second of its TTL, a cached entry that
\* the downstream services have changed since.
C14_Witness ==
    /\ tlCol.pc = "done" /\ tlCol.seen = "valid"
    /\ tlCol.age = tlCfg.cache_ttl - 1 /\ tlCol.age > 0
    /\ tlCol.result # <<>> /\ tlCol.result[1].ver < tlRemote

\* C15: after an invalidate that completed without a Redis error, the next
\* collect for the ticket is a cache miss: it fetches from the downstream
\* services again.
C15_MissAfterInvalidate ==
    tlCol.afterInvalidate =>
        /\ tlCol.seen \notin {"valid", "corrupt"}
        /\ tlCol.pc = "done" => tlCol.fetched

\* C16: a reserve request loads the item's row, and when its quantity is
\* greater than the available inventory of that row (quantity_on_hand minus
\* quantity_reserved) it is answered 409 and writes nothing: the quantities
\* and the event log of every item stay as they were.
C16_OverReserveRejected ==
    [][\A r \in DOMAIN invReq :
          /\ invReq[r].op = None /\ invReq'[r].op = "reserve"
             => invReq'[r].item = invItems[invReq'[r].id]
          /\ /\ invReq[r].op = "reserve"
             /\ invReq'[r].op = None
             /\ invReq[r].quantity > invReq[r].item.quantity_on_hand
                                       - invReq[r].item.quantity_reserved
             => /\ invLast' = [op |-> "reserve", id |-> invReq[r].id, code |-> 409]
                /\ invItems' = invItems]_vars

\* C16 witness: a reserve was answered 409 on an item that holds a
\* reservation and the events of its creation and of that reservation only.
C16_Witness ==
    /\ invLast.op = "reserve"
    /\ invLast.code = 409
    /\ invItems[1].quantity_reserved > 0
    /\ invItems[1].quantity_on_hand = MaxQuantity
    /\ invLast.id = 1
    /\ invItems[1].events = <<"created", "reserved">>
    /\ \A r \in DOMAIN invReq : invReq[r].op = None

\* C17: creating an inventory item whose sku and location a row already has
\* is answered 409 and adds no row, so that no two rows ever have the same
\* sku and location.
C17_OneRecordPerSkuKey ==
    \A i, j \in DOMAIN invItems :
        /\ invItems[i].exists /\ invItems[j].exists
        /\ invItems[i].sku = invItems[j].sku
        /\ invItems[i].location = invItems[j].location
        => i = j

\* C18: a send request for a notification whose status is already "sent" is
\* answered 409; the provider is not called and no event is recorded.
C18_AlreadySentRejected ==
    [][/\ ntfLast'.op = "send"
       /\ ntfRows[ntfLast'.id].exists
       /\ ntfRows[ntfLast'.id].status = "sent"
       => /\ ntfLast'.code = 409
          /\ ntfLast'.provider = 0
          /\ ntfLast'.added = <<>>
          /\ ntfRows' = ntfRows]_vars

\* C18 witness: a send was answered 409 on a notification that was sent
\* once through the provider.
C18_Witness ==
    /\ ntfLast.op = "send"
    /\ ntfLast.code = 409
    /\ ntfCfg.provider
    /\ ntfRows[ntfLast.id].status = "sent"
    /\ ntfRows[ntfLast.id].events = <<"created", "sent">>

\* C19: a request the rate limiter denies is answered 429 and has no effect:
\* a denied send does not call the provider and leaves the notification as
\* it was, a denied batch creates no job and no notification.
C19_DeniedHasNoEffect ==
    [][/\ ntfLast'.op \in {"send", "batch"}
       /\ ntfLast'.limiter = "denied"
       => /\ ntfLast'.code = 429
          /\ ntfLast'.provider = 0
          /\ ntfRows' = ntfRows
          /\ ntfJobs' = ntfJobs]_vars

\* C19 witness: a batch was answered 429 while a pending notification, no
\* job and free rows for the batch exist.
C19_Witness ==
    /\ ntfLast.op = "batch"
    /\ ntfLast.code = 429
    /\ ntfLast.limiter = "denied"
    /\ ntfJobs = <<>>
    /\ ntfRows[1].status = "pending"
    /\ ~ntfRows[2].exists

\* C20: an event of a customer who has opted out of the channel creates no
\* notification and does not call the provider; a customer without a stored
\* preference for the channel is treated as opted in.
C20_OptOutRespected ==
    [][ntfLast'.op = "event" =>
          /\ ntfLast'.pref = "out"
             => /\ ntfLast'.outcome = "opted_out"
                /\ ntfLast'.provider = 0
                /\ ntfRows' = ntfRows
          /\ ntfLast'.pref = "none" => ntfLast'.outcome # "opted_out"]_vars

\* C20 witness: the customer has opted out of sms only, an email event of
\* the customer was sent and the last event, on sms, was dropped.
C20_Witness ==
    /\ ntfLast.op = "event"
    /\ ntfLast.pref = "out"
    /\ ntfLast.outcome = "opted_out"
    /\ ntfPrefs[1] = [email |-> "none", sms |-> "out"]
    /\ ntfRows[1].status = "sent"
    /\ ntfRows[1].channel = "email"
    /\ ~ntfRows[2].exists

\* C21: with requests handled one after the other, a successful release of q
\* takes q off quantity_reserved and leaves quantity_on_hand as it was, a
\* successful commit of q takes q off both, and either is answered 409 and
\* changes nothing when q is greater than quantity_reserved.
C21_ReleaseAndCommit ==
    [][\A r \in DOMAIN invReq :
          /\ invReq[r].op \in {"release", "commit"}
          /\ invReq'[r].op = None
          => LET q == invReq[r].quantity
                 before == invItems[invReq[r].id]
                 after == invItems'[invReq[r].id]
             IN  IF q > before.quantity_reserved
                 THEN invLast'.code = 409 /\ invItems' = invItems
                 ELSE invLast'.code = 200 =>
                         /\ after.quantity_reserved = before.quantity_reserved - q
                         /\ after.quantity_on_hand =
                               IF invReq[r].op = "commit"
                               THEN before.quantity_on_hand - q
                               ELSE before.quantity_on_hand]_vars

\* C21 witness: after a reserve of the whole stock, a release of one unit
\* went through and left the stock as it was.
C21_Witness ==
    /\ invLast = [op |-> "release", id |-> 1, code |-> 200]
    /\ invItems[1].events = <<"created", "reserved", "released">>
    /\ invItems[1].quantity_on_hand = MaxQuantity
    /\ invItems[1].quantity_reserved = MaxQuantity - 1

\* C23: of two reserve requests for one item that are handled at the same
\* time, the one that writes second succeeds only if the row can hold both
\* reservations, and its write keeps the reservation of the first:
\* quantity_reserved grows by its quantity and stays within quantity_on_hand.
C23_ConcurrentReservesSafe ==
    [][\A r \in DOMAIN invReq :
          /\ invReq[r].op = "reserve"
          /\ invReq'[r].op = None
          /\ invItems[invReq[r].id].events = Append(invReq[r].item.events, "reserved")
          /\ invLast'.code = 200
          => /\ invItems'[invReq[r].id].quantity_reserved =
                   invItems[invReq[r].id].quantity_reserved + invReq[r].quantity
             /\ invItems'[invReq[r].id].quantity_reserved
                   <= invItems'[invReq[r].id].quantity_on_hand]_vars

\* C24: with create, adjust, restock, reserve, release and commit requests
\* handled one after the other, every item has
\* 0 <= quantity_reserved <= quantity_on_hand.
C24_ReservedWithinOnHand ==
    \A id \in DOMAIN invItems :
        /\ 0 <= invItems[id].quantity_reserved
        /\ invItems[id].quantity_reserved <= invItems[id].quantity_on_hand

\* C24 witness: the whole stock of an item is reserved and an adjust below
\* the reservation was answered 400.
C24_Witness ==
    /\ invLast = [op |-> "adjust", id |-> 1, code |-> 400]
    /\ invItems[1].quantity_reserved = MaxQuantity
    /\ invItems[1].quantity_on_hand = MaxQuantity
    /\ \A r \in DOMAIN invReq : invReq[r].op = None

\* C25: when an invalidate completed without a Redis error while a collect
\* that missed the cache had its downstream responses and had not written
\* them yet, the cache does not hold the result of that fetch after the
\* collect's cache write, so no later collect can be served it.
C25_OlderFetchNotCached ==
    [][tlCol.pc = "set" /\ tlCol.invalidatedSinceFetch /\ tlCol'.pc = "done"
          => ~(tlCache'.present /\ tlCache'.src = tlCol.entries)]_vars

\* C26: a collect is never answered from the cache with fewer entries than
\* the fan-out of the ticket yields when every downstream request succeeds,
\* that is, with the result of a collect during which a request failed.
C26_NoHitOnDegradedResult ==
    [][tlCol.pc = "idle" /\ tlCol'.seen = "valid"
          => Len(tlCol'.result) = (IF HasOrderTask THEN 2 ELSE 0)
                                  + (IF HasPaymentTask THEN 1 ELSE 0)
                                  + (IF HasShipmentTask THEN 1 ELSE 0)]_vars

\* C28: in every interleaving of allow calls with the expiry of the key, the
\* counter of the channel is not negative, and it carries a TTL unless the
\* call that created it is about to issue its expire.
C28_CounterNonNegativeWithTtl ==
    rlKey.exists =>
        /\ rlKey.value >= 0
        /\ (\A c \in Callers : rlCall[c].pc # "expire") => rlKey.ttl # NoTtl

\* C27: provider.send is invoked for a notification at most once after it
\* has succeeded: no send request reaches the provider for a notification
\* whose event log already holds a "sent" event.
C27_ProviderCalledOnce ==
    [][ntfLast'.op = "send" /\ ntfLast'.provider > 0
          => \A i \in DOMAIN ntfRows[ntfLast'.id].events :
                 ntfRows[ntfLast'.id].events[i] # "sent"]_vars

\* C29: the broker hands an event to a subscriber only for a request whose
\* transaction is committed.
C29_DeliveredOnlyWhenCommitted == supLast.delivered => supLast.ok

\* C22: a merge of the cart of customer A into the cart of another customer
\* B leaves B's cart with, for every SKU, the quantity B had plus the
\* quantity A had, and A's cart empty; when A has no cart, B's cart keeps its
\* items and is returned with them.
C22_MergeAddsAndEmpties ==
    [][cartLast'.op = "merge" /\ cartLast'.from_customer_id # cartLast'.to_customer_id
          => LET a == carts[cartLast'.from_customer_id]
                 b == carts[cartLast'.to_customer_id]
                 a2 == carts'[cartLast'.from_customer_id]
                 b2 == carts'[cartLast'.to_customer_id]
             IN  /\ cartLast'.items = b2.items
                 /\ IF a.exists
                    THEN /\ \A sku \in DOMAIN b.items :
                               /\ b2.items[sku].quantity =
                                     b.items[sku].quantity + a.items[sku].quantity
                               /\ a2.items[sku].quantity = 0
                         /\ a2.exists
                    ELSE b2.items = b.items /\ a2 = a]_vars

\* C22 witness: customer 1's cart was merged into customer 2's cart, which
\* now holds both SKUs, one of them at the bound, and customer 1's cart is
\* left without items.
C22_Witness ==
    /\ cartLast.op = "merge"
    /\ cartLast.from_customer_id = 1 /\ cartLast.to_customer_id = 2
    /\ carts[1].exists
    /\ \A sku \in DOMAIN carts[1].items : carts[1].items[sku].quantity = 0
    /\ carts[2].items["SKU-1"].quantity = MaxCartQuantity
    /\ carts[2].items["SKU-2"].quantity = 1

\* C30: a merge of a cart into itself leaves the items of the cart, with
\* their quantities and prices (and so the total), as they were.
C30_SelfMergeChangesNothing ==
    [][cartLast'.op = "merge" /\ cartLast'.from_customer_id = cartLast'.to_customer_id
          => /\ carts'[cartLast'.to_customer_id].items
                   = carts[cartLast'.to_customer_id].items
             /\ cartLast'.items = carts[cartLast'.to_customer_id].items]_vars

====
